---- MODULE Spec2Model ----
(***************************************************************************)
(* Model of the transaction executor: Start drives ExecuteBlock over the    *)
(* blocks; ExecuteBlock feeds a pool of worker goroutines through the jobs  *)
(* channel, receives each result on the results channel and commits it to   *)
(* the InMemoryAccountState ledger.                                         *)
(***************************************************************************)
EXTENDS Integers, Sequences, FiniteSets, TLC

\* ------------------------------------------------------------------ bounds
MaxWorkers == 2
MaxTxs == 2
MaxBatchLen == 2
\* Go's uint/int are 64 bits wide; the model keeps the two's-complement
\* arithmetic at a width TLC can compute with.
UintBits == 8

\* ------------------------------------------------------- program constants
JobsCap == 1
ResultsCap == 1

\* --------------------------------------------------------------- integers
UintMod == 2 ^ UintBits
IntMin == 0 - 2 ^ (UintBits - 1)
IntMax == 2 ^ (UintBits - 1) - 1

\* uint(x): conversion of an int to uint (two's complement)
ToUint(x) == x % UintMod

\* int results wrap to the signed range
ToInt(x) == ((x - IntMin) % UintMod) + IntMin

\* -x on an int
NegInt(x) == ToInt(0 - x)

\* a + b on uint
AddUint(a, b) == (a + b) % UintMod

\* a - b on uint
SubUint(a, b) == (a - b) % UintMod

NoErr == "nil"

\* ---------------------------------------------------------------- ledger
\* The accounts map is a function whose DOMAIN is the set of keys present.

\* s.accounts[name]: a missing key reads as the zero value
MapGet(accts, name) == IF name \in DOMAIN accts THEN accts[name] ELSE 0

\* s.accounts[name] = v: inserts the key when it is missing
MapSet(accts, name, v) ==
  [n \in DOMAIN accts \cup {name} |-> IF n = name THEN v ELSE accts[n]]

EmptyMap == [n \in {} |-> 0]

RECURSIVE NewInMemoryAccountStateFrom(_, _)
NewInMemoryAccountStateFrom(accts, initialAccounts) ==
  IF initialAccounts = <<>> THEN accts
  ELSE NewInMemoryAccountStateFrom(
         MapSet(accts, Head(initialAccounts).Name, Head(initialAccounts).Balance),
         Tail(initialAccounts))

NewInMemoryAccountState(initialAccounts) ==
  NewInMemoryAccountStateFrom(EmptyMap, initialAccounts)

\* GetAccount that answers a missing key with the zero AccountValue
GetAccountZeroValue(accts, name) ==
  IF name \in DOMAIN accts THEN [Name |-> name, Balance |-> accts[name]]
  ELSE [Name |-> "", Balance |-> 0]

GetAccount(accts, name) == [Name |-> name, Balance |-> MapGet(accts, name)]

\* applyUpdate without the test decrease > currentBalance: the subtraction wraps
applyUpdateNoClamp(accts, update) ==
  LET currentBalance == MapGet(accts, update.Name) IN
  IF update.BalanceChange >= 0
  THEN MapSet(accts, update.Name, AddUint(currentBalance, ToUint(update.BalanceChange)))
  ELSE MapSet(accts, update.Name,
              SubUint(currentBalance, ToUint(NegInt(update.BalanceChange))))

\* one iteration of the loop of applyUpdates
applyUpdate(accts, update) ==
  LET currentBalance == MapGet(accts, update.Name) IN
  IF update.BalanceChange >= 0
  THEN MapSet(accts, update.Name, AddUint(currentBalance, ToUint(update.BalanceChange)))
  ELSE LET decrease == ToUint(NegInt(update.BalanceChange)) IN
       IF decrease > currentBalance
       THEN MapSet(accts, update.Name, 0)
       ELSE MapSet(accts, update.Name, SubUint(currentBalance, decrease))

RECURSIVE applyUpdates(_, _)
applyUpdates(accts, updates) ==
  IF updates = <<>> THEN accts
  ELSE applyUpdates(applyUpdate(accts, Head(updates)), Tail(updates))

\* the slice is built by ranging over the map: its order is unspecified, so
\* the snapshot is the set of its elements
getSnapshot(accts) == {[Name |-> n, Balance |-> accts[n]] : n \in DOMAIN accts}

\* ---------------------------------------------------------- transactions
\* Updates yields the update list and the error, and (as history) the values
\* its GetAccount calls returned.
\* transfer is the Transaction of the tests; "fixed" stands for any other
\* implementation of the interface: Updates returns a given pair.
Transfer(f, t, v) == [kind |-> "transfer", from |-> f, to |-> t, value |-> v]
Fixed(u, e) == [kind |-> "fixed", updates |-> u, err |-> e]
Upd(n, c) == [Name |-> n, BalanceChange |-> c]
Acct(n, b) == [Name |-> n, Balance |-> b]

\* a transfer that never looks at the sender's balance
transferUpdatesNoCheck(t, accts) ==
  [updates |-> <<Upd(t.from, NegInt(t.value)), Upd(t.to, t.value)>>,
   err |-> NoErr, reads |-> <<>>]

transferUpdates(t, accts) ==
  LET fromAcc == GetAccount(accts, t.from) IN
  IF fromAcc.Balance < ToUint(t.value)
  THEN [updates |-> <<>>, err |-> "insufficient balance", reads |-> <<fromAcc>>]
  ELSE [updates |-> <<Upd(t.from, NegInt(t.value)), Upd(t.to, t.value)>>,
        err |-> NoErr, reads |-> <<fromAcc>>]

Updates(tx, accts) ==
  IF tx.kind = "transfer" THEN transferUpdates(tx, accts)
  ELSE [updates |-> tx.updates, err |-> tx.err, reads |-> <<>>]


\* ---------------------------------------------------------------- inputs
Names == {"A", "B"}
TransferValues == {0, 1}

Transactions ==
  {Transfer(p[1], p[2], v) : p \in {q \in Names \X Names : q[1] # q[2]}, v \in TransferValues}
  \cup {Fixed(<<Upd("A", 1)>>, "rejected"), Fixed(<<Upd("B", -1)>>, NoErr)}

\* every way of cutting a sequence of transactions into non-empty blocks
RECURSIVE Splits(_)
Splits(s) ==
  IF s = <<>> THEN {<<>>}
  ELSE UNION {{<<SubSeq(s, 1, k)>> \o rest : rest \in Splits(SubSeq(s, k + 1, Len(s)))} :
                k \in 1..Len(s)}

BlockSeqs ==
  UNION {UNION {Splits(s) : s \in [1..n -> Transactions]} : n \in 0..MaxTxs}
  \cup {<< <<>> >>}

\* the second one names A twice: the later balance stands
InitialStates ==
  {<<>>,
   <<Acct("A", 0), Acct("A", 1)>>,
   <<Acct("A", 1), Acct("B", 0)>>,
   <<Acct("A", 2), Acct("B", 1)>>}

\* TestStart_Example1
Example1 ==
  [blocks |-> << <<Transfer("A", "B", 5), Transfer("B", "C", 10), Transfer("B", "C", 30)>> >>,
   initialState |-> <<Acct("A", 20), Acct("B", 30), Acct("C", 40)>>]

\* TestStart_MultipleBlocks
MultipleBlocks ==
  [blocks |-> << <<Transfer("A", "B", 50)>>, <<Transfer("B", "C", 30)>>,
                 <<Transfer("C", "A", 20)>> >>,
   initialState |-> <<Acct("A", 100), Acct("B", 100), Acct("C", 100)>>]

\* two blocks, the first of two transactions that depend on each other
TwoBlocks ==
  [blocks |-> << <<Transfer("A", "B", 1), Transfer("B", "A", 1)>>,
                 <<Transfer("A", "B", 1)>> >>,
   initialState |-> <<Acct("A", 1)>>]

\* a transfer of a negative value: uint(-1) is the largest uint, so the check
\* passes on a sender that holds exactly that much
NegativeValue ==
  [blocks |-> << <<Transfer("A", "B", -1)>> >>,
   initialState |-> <<Acct("A", UintMod - 1), Acct("B", 0)>>]

\* a transfer of the smallest int, whose negation is itself
MinValue ==
  [blocks |-> << <<Transfer("A", "B", IntMin)>> >>,
   initialState |-> <<Acct("A", 0 - IntMin), Acct("B", 1)>>]

\* a transfer to a receiver that holds the largest uint
CreditOverflow ==
  [blocks |-> << <<Transfer("B", "A", 1)>> >>,
   initialState |-> <<Acct("A", UintMod - 1), Acct("B", 1)>>]

Inputs ==
  {[blocks |-> b, initialState |-> s] : b \in BlockSeqs, s \in InitialStates}
  \cup {Example1, MultipleBlocks, TwoBlocks, NegativeValue, MinValue, CreditOverflow}

\* ----------------------------------------------------------------- state
VARIABLES
  blocks,        \* Start: the blocks argument
  initialState,  \* Start: the initialState argument
  numWorkers,    \* Start: the numWorkers argument
  accounts,      \* InMemoryAccountState.accounts
  pc,            \* where the goroutine running Start/ExecuteBlock stands
  blockIdx,      \* Start: number of the block being executed (1-based), 0 before
  i,             \* ExecuteBlock: the loop index over block.Transactions
  result,        \* ExecuteBlock: the received result (<<>> before any)
  jobs,          \* the jobs channel's buffer
  jobsClosed,    \* close(jobs) has run
  results,       \* the results channel's buffer
  resultsClosed, \* close(results) has run
  wg,            \* the WaitGroup's counter
  closer,        \* the goroutine that waits on wg and closes results
  wpc,           \* each worker goroutine's position
  wjob,          \* each worker's job (<<>> when it holds none)
  wres,          \* each worker's txResult to send (<<>> when none)
  wview,         \* history: the ledger as each worker's Updates read it
  wgot,          \* history: what the GetAccount calls of that Updates returned
  resolved,      \* history: the transactions committed or discarded so far
  drained,       \* history: results received by the drain loop
  snapshot,      \* Start: the returned slice
  err,           \* Start: the returned error
  runIdx,        \* which call of Start this is (TestStart_DifferentWorkerCounts)
  firstResult,   \* the first call's result, kept by the test
  blockErr,      \* Start: the error the last call of ExecuteBlock returned
  mu,            \* InMemoryAccountState.mu: the writer holding it, the readers
  tpc,           \* callers of the ledger's methods: each one's position
  tcall,         \* the call each caller is in (<<>> when in none)
  tk,            \* applyUpdates: how many updates of the batch are applied
  tpre,          \* history: the ledger when the caller's applyUpdates began
  tobs,          \* what the caller's GetAccount or getSnapshot returned
  lastApplied    \* history: the last iteration of applyUpdates' loop

vars == <<blocks, initialState, numWorkers, accounts, pc, blockIdx, i, result, jobs,
          jobsClosed, results, resultsClosed, wg, closer, wpc, wjob, wres, wview,
          wgot, resolved, drained, snapshot, err, runIdx, firstResult, blockErr,
          mu, tpc, tcall, tk, tpre, tobs, lastApplied>>

ledgerVars == <<mu, tpc, tcall, tk, tpre, tobs, lastApplied>>

inputVars == <<blocks, initialState, numWorkers>>
chanVars == <<jobs, jobsClosed, results, resultsClosed>>
workerVars == <<wpc, wjob, wres, wview, wgot>>
startVars == <<snapshot, err, runIdx, firstResult, blockErr>>

Workers == 1..MaxWorkers
\* the callers of the ledger in SpecLedger: two writers and a reader
Writers == {"w1", "w2"}
Readers == {"r1"}
Threads == Writers \cup Readers

Block == blocks[blockIdx]

\* the state in which Start begins its loop over the blocks
StartEntry(initial) ==
  /\ accounts = NewInMemoryAccountState(initial)
  /\ pc = "loop"
  /\ blockIdx = 0
  /\ i = 0
  /\ result = <<>>
  /\ jobs = <<>>
  /\ jobsClosed = FALSE
  /\ results = <<>>
  /\ resultsClosed = FALSE
  /\ wg = 0
  /\ closer = "none"
  /\ wpc = [w \in Workers |-> "none"]
  /\ wjob = [w \in Workers |-> <<>>]
  /\ wres = [w \in Workers |-> <<>>]
  /\ wview = [w \in Workers |-> EmptyMap]
  /\ wgot = [w \in Workers |-> <<>>]
  /\ resolved = <<>>
  /\ drained = 0
  /\ snapshot = {}
  /\ err = NoErr
  /\ blockErr = NoErr

\* no caller is in a method of the ledger
LedgerIdle ==
  /\ mu = [writer |-> FALSE, readers |-> 0]
  /\ tpc = [t \in Threads |-> "idle"]
  /\ tcall = [t \in Threads |-> <<>>]
  /\ tk = [t \in Threads |-> 0]
  /\ tpre = [t \in Threads |-> EmptyMap]
  /\ tobs = [t \in Threads |-> <<>>]
  /\ lastApplied = <<>>

Init ==
  \E inp \in Inputs, n \in 0..MaxWorkers :
    /\ blocks = inp.blocks
    /\ initialState = inp.initialState
    /\ numWorkers = n
    /\ StartEntry(inp.initialState)
    /\ runIdx = 1
    /\ firstResult = [workers |-> 0, snap |-> {}, err |-> NoErr]
    /\ LedgerIdle

\* ------------------------------------------------- Start and ExecuteBlock
\* ExecuteBlockEnter with wg.Add(1) moved into the worker goroutine: the
\* goroutine that closes results may see a zero counter at once
ExecuteBlockEnterNoAdd ==
  /\ pc = "loop"
  /\ blockIdx < Len(blocks)
  /\ blockIdx' = blockIdx + 1
  /\ jobs' = <<>>
  /\ jobsClosed' = FALSE
  /\ results' = <<>>
  /\ resultsClosed' = FALSE
  /\ wg' = 0
  /\ closer' = "wait"
  /\ wpc' = [w \in Workers |-> IF w <= numWorkers THEN "recv" ELSE "none"]
  /\ wjob' = [w \in Workers |-> <<>>]
  /\ wres' = [w \in Workers |-> <<>>]
  /\ wview' = [w \in Workers |-> EmptyMap]
  /\ wgot' = [w \in Workers |-> <<>>]
  /\ i' = 0
  /\ result' = <<>>
  /\ pc' = IF Len(blocks[blockIdx + 1]) > 0 THEN "send" ELSE "close"
  /\ UNCHANGED <<ledgerVars, inputVars, accounts, resolved, drained, startVars>>

\* Start's loop takes the next block; ExecuteBlock makes the channels and
\* starts the workers and the goroutine that closes results
ExecuteBlockEnter ==
  /\ pc = "loop"
  /\ blockIdx < Len(blocks)
  /\ blockIdx' = blockIdx + 1
  /\ jobs' = <<>>
  /\ jobsClosed' = FALSE
  /\ results' = <<>>
  /\ resultsClosed' = FALSE
  /\ wg' = IF numWorkers > 0 THEN numWorkers ELSE 0
  /\ closer' = "wait"
  /\ wpc' = [w \in Workers |-> IF w <= numWorkers THEN "recv" ELSE "none"]
  /\ wjob' = [w \in Workers |-> <<>>]
  /\ wres' = [w \in Workers |-> <<>>]
  /\ wview' = [w \in Workers |-> EmptyMap]
  /\ wgot' = [w \in Workers |-> <<>>]
  /\ i' = 0
  /\ result' = <<>>
  /\ pc' = IF Len(blocks[blockIdx + 1]) > 0 THEN "send" ELSE "close"
  /\ UNCHANGED <<ledgerVars, inputVars, accounts, resolved, drained, startVars>>

\* SendJob with the loop variables captured by reference: every job carries
\* the block's last transaction and index
SendJobCaptured ==
  /\ pc = "send"
  /\ ~jobsClosed
  /\ Len(jobs) < JobsCap
  /\ jobs' = Append(jobs, [transaction |-> Block[Len(Block)], index |-> Len(Block) - 1])
  /\ pc' = "recv"
  /\ UNCHANGED <<ledgerVars, inputVars, accounts, blockIdx, i, result, jobsClosed, results,
                 resultsClosed, wg, closer, workerVars, resolved, drained, startVars>>

\* jobs <- txJob{...}
SendJob ==
  /\ pc = "send"
  /\ ~jobsClosed
  /\ Len(jobs) < JobsCap
  /\ jobs' = Append(jobs, [transaction |-> Block[i + 1], index |-> i])
  /\ pc' = "recv"
  /\ UNCHANGED <<ledgerVars, inputVars, accounts, blockIdx, i, result, jobsClosed, results,
                 resultsClosed, wg, closer, workerVars, resolved, drained, startVars>>

\* the value a receive from a closed, empty channel yields
ZeroResult == [updates |-> <<>>, index |-> 0, err |-> NoErr]

\* RecvResult as a receive that does not block: an empty channel yields the
\* zero value whether or not it is closed
RecvResultNoWait ==
  /\ pc = "recv"
  /\ \/ /\ results # <<>>
        /\ result' = <<Head(results)>>
        /\ results' = Tail(results)
     \/ /\ results = <<>>
        /\ result' = <<ZeroResult>>
        /\ results' = results
  /\ pc' = "commit"
  /\ UNCHANGED <<ledgerVars, inputVars, accounts, blockIdx, i, jobs, jobsClosed, resultsClosed,
                 wg, closer, workerVars, resolved, drained, startVars>>

\* result := <-results
RecvResult ==
  /\ pc = "recv"
  /\ \/ /\ results # <<>>
        /\ result' = <<Head(results)>>
        /\ results' = Tail(results)
     \/ /\ results = <<>>
        /\ resultsClosed
        /\ result' = <<ZeroResult>>
        /\ results' = results
  /\ pc' = "commit"
  /\ UNCHANGED <<ledgerVars, inputVars, accounts, blockIdx, i, jobs, jobsClosed, resultsClosed,
                 wg, closer, workerVars, resolved, drained, startVars>>

\* Commit without the test of result.err
CommitIgnoreErr ==
  /\ pc = "commit"
  /\ LET r == result[1] IN
       /\ accounts' = applyUpdates(accounts, r.updates)
       /\ resolved' = Append(resolved,
                        [block |-> blockIdx, index |-> r.index, ok |-> r.err = NoErr,
                         updates |-> r.updates])
  /\ i' = i + 1
  /\ pc' = IF i + 1 < Len(Block) THEN "send" ELSE "close"
  /\ UNCHANGED <<ledgerVars, inputVars, blockIdx, result, chanVars, wg, closer, workerVars,
                 drained, startVars>>

\* Commit that leaves the loop at the first failed transaction
CommitBreakOnErr ==
  /\ pc = "commit"
  /\ LET r == result[1] IN
       /\ accounts' = IF r.err = NoErr THEN applyUpdates(accounts, r.updates)
                      ELSE accounts
       /\ resolved' = Append(resolved,
                        [block |-> blockIdx, index |-> r.index, ok |-> r.err = NoErr,
                         updates |-> r.updates])
       /\ pc' = IF i + 1 < Len(Block) /\ r.err = NoErr THEN "send" ELSE "close"
  /\ i' = i + 1
  /\ UNCHANGED <<ledgerVars, inputVars, blockIdx, result, chanVars, wg, closer, workerVars,
                 drained, startVars>>

\* Commit that returns a failed transaction's error from ExecuteBlock and Start
CommitAbortOnErr ==
  /\ pc = "commit"
  /\ LET r == result[1] IN
       /\ accounts' = IF r.err = NoErr THEN applyUpdates(accounts, r.updates)
                      ELSE accounts
       /\ resolved' = Append(resolved,
                        [block |-> blockIdx, index |-> r.index, ok |-> r.err = NoErr,
                         updates |-> r.updates])
       /\ IF r.err = NoErr
          THEN /\ pc' = IF i + 1 < Len(Block) THEN "send" ELSE "close"
               /\ UNCHANGED <<snapshot, err>>
          ELSE /\ pc' = "done"
               /\ snapshot' = {}
               /\ err' = r.err
  /\ i' = i + 1
  /\ UNCHANGED <<ledgerVars, inputVars, blockIdx, result, chanVars, wg, closer, workerVars,
                 drained, runIdx, firstResult, blockErr>>

\* if result.err == nil { state.ApplyUpdates(result.updates) }, and the loop
\* goes on to the next transaction
Commit ==
  /\ pc = "commit"
  /\ LET r == result[1] IN
       /\ accounts' = IF r.err = NoErr THEN applyUpdates(accounts, r.updates)
                      ELSE accounts
       /\ resolved' = Append(resolved,
                        [block |-> blockIdx, index |-> r.index, ok |-> r.err = NoErr,
                         updates |-> r.updates])
  /\ i' = i + 1
  /\ pc' = IF i + 1 < Len(Block) THEN "send" ELSE "close"
  /\ UNCHANGED <<ledgerVars, inputVars, blockIdx, result, chanVars, wg, closer, workerVars,
                 drained, startVars>>

\* close(jobs)
CloseJobs ==
  /\ pc = "close"
  /\ jobsClosed' = TRUE
  /\ pc' = "drain"
  /\ UNCHANGED <<ledgerVars, inputVars, accounts, blockIdx, i, result, jobs, results,
                 resultsClosed, wg, closer, workerVars, resolved, drained, startVars>>

\* Start after a call of ExecuteBlock that went wrong and never looks at the
\* error: _, _ = ExecuteBlock(...)
StartAfterBlockIgnoreErr(e) ==
  /\ pc' = "loop"
  /\ UNCHANGED <<snapshot, err>>

\* if _, err := ExecuteBlock(...); err != nil { return nil, err }
StartAfterBlock(e) ==
  IF e # NoErr
  THEN /\ pc' = "done"
       /\ snapshot' = {}
       /\ err' = e
  ELSE /\ pc' = "loop"
       /\ UNCHANGED <<snapshot, err>>

\* for range results {}: a received value is dropped; the loop ends on the
\* closed channel, ExecuteBlock returns the snapshot and the error e, and
\* Start checks the error before the next block
ExecuteBlockReturn(e) ==
  /\ pc = "drain"
  /\ IF results # <<>>
     THEN /\ results' = Tail(results)
          /\ drained' = drained + 1
          /\ UNCHANGED <<pc, snapshot, err, blockErr>>
     ELSE /\ resultsClosed
          /\ UNCHANGED <<results, drained>>
          /\ blockErr' = e
          /\ StartAfterBlock(e)
  /\ UNCHANGED <<ledgerVars, inputVars, accounts, blockIdx, i, result, jobs, jobsClosed,
                 resultsClosed, wg, closer, workerVars, resolved, runIdx, firstResult>>

\* ExecuteBlock without its drain loop: it returns right after close(jobs)
DrainResultsNoWait ==
  /\ pc = "drain"
  /\ blockErr' = NoErr
  /\ StartAfterBlock(NoErr)
  /\ UNCHANGED <<ledgerVars, inputVars, accounts, blockIdx, i, result, chanVars, wg, closer,
                 workerVars, resolved, drained, runIdx, firstResult>>

\* the only return of ExecuteBlock: return state.GetSnapshot(), nil
DrainResults == ExecuteBlockReturn(NoErr)

\* return state.getSnapshot(), nil
StartReturn ==
  /\ pc = "loop"
  /\ blockIdx = Len(blocks)
  /\ snapshot' = getSnapshot(accounts)
  /\ err' = NoErr
  /\ pc' = "done"
  /\ UNCHANGED <<ledgerVars, inputVars, accounts, blockIdx, i, result, chanVars, wg, closer,
                 workerVars, resolved, drained, runIdx, firstResult, blockErr>>

\* ---------------------------------------------------------------- worker
\* for job := range jobs: one received job
WorkerRecvJob(w) ==
  /\ wpc[w] = "recv"
  /\ jobs # <<>>
  /\ wjob' = [wjob EXCEPT ![w] = <<Head(jobs)>>]
  /\ jobs' = Tail(jobs)
  /\ wpc' = [wpc EXCEPT ![w] = "run"]
  /\ UNCHANGED <<ledgerVars, inputVars, accounts, pc, blockIdx, i, result, jobsClosed, results,
                 resultsClosed, wg, closer, wres, wview, wgot, resolved, drained, startVars>>

\* WorkerUpdates on a job whose state is a copy of the ledger made when Start
\* began, not the shared ledger
WorkerUpdatesStale(w) ==
  /\ wpc[w] = "run"
  /\ LET job == wjob[w][1]
         stale == NewInMemoryAccountState(initialState)
         out == Updates(job.transaction, stale) IN
       /\ wres' = [wres EXCEPT ![w] =
                     <<[updates |-> out.updates, index |-> job.index, err |-> out.err]>>]
       /\ wview' = [wview EXCEPT ![w] = stale]
       /\ wgot' = [wgot EXCEPT ![w] = out.reads]
  /\ wpc' = [wpc EXCEPT ![w] = "send"]
  /\ UNCHANGED <<ledgerVars, inputVars, accounts, pc, blockIdx, i, result, chanVars, wg, closer,
                 wjob, resolved, drained, startVars>>

\* WorkerUpdates by a worker that applies its updates to job.state itself
WorkerUpdatesApplying(w) ==
  /\ wpc[w] = "run"
  /\ LET job == wjob[w][1]
         out == Updates(job.transaction, accounts) IN
       /\ wres' = [wres EXCEPT ![w] =
                     <<[updates |-> out.updates, index |-> job.index, err |-> out.err]>>]
       /\ wgot' = [wgot EXCEPT ![w] = out.reads]
       /\ accounts' = IF out.err = NoErr THEN applyUpdates(accounts, out.updates)
                      ELSE accounts
  /\ wview' = [wview EXCEPT ![w] = accounts]
  /\ wpc' = [wpc EXCEPT ![w] = "send"]
  /\ UNCHANGED <<ledgerVars, inputVars, pc, blockIdx, i, result, chanVars, wg, closer,
                 wjob, resolved, drained, startVars>>

\* job.transaction.Updates(job.state): job.state is the one shared ledger
WorkerUpdates(w) ==
  /\ wpc[w] = "run"
  /\ LET job == wjob[w][1]
         out == Updates(job.transaction, accounts) IN
       wres' = [wres EXCEPT ![w] =
                  <<[updates |-> out.updates, index |-> job.index, err |-> out.err]>>]
  /\ wview' = [wview EXCEPT ![w] = accounts]
  /\ wgot' = [wgot EXCEPT ![w] = Updates(wjob[w][1].transaction, accounts).reads]
  /\ wpc' = [wpc EXCEPT ![w] = "send"]
  /\ UNCHANGED <<ledgerVars, inputVars, accounts, pc, blockIdx, i, result, chanVars, wg, closer,
                 wjob, resolved, drained, startVars>>

\* results <- txResult{...}
WorkerSendResult(w) ==
  /\ wpc[w] = "send"
  /\ ~resultsClosed
  /\ Len(results) < ResultsCap
  /\ results' = Append(results, wres[w][1])
  /\ wpc' = [wpc EXCEPT ![w] = "recv"]
  /\ UNCHANGED <<ledgerVars, inputVars, accounts, pc, blockIdx, i, result, jobs, jobsClosed,
                 resultsClosed, wg, closer, wjob, wres, wview, wgot, resolved, drained,
                 startVars>>

\* WorkerExit of a worker without defer wg.Done()
WorkerExitNoDone(w) ==
  /\ wpc[w] = "recv"
  /\ jobs = <<>>
  /\ jobsClosed
  /\ wpc' = [wpc EXCEPT ![w] = "exited"]
  /\ UNCHANGED <<ledgerVars, inputVars, accounts, pc, blockIdx, i, result, chanVars, wg,
                 closer, wjob, wres, wview, wgot, resolved, drained, startVars>>

\* the range loop ends on the closed, empty jobs channel; defer wg.Done()
WorkerExit(w) ==
  /\ wpc[w] = "recv"
  /\ jobs = <<>>
  /\ jobsClosed
  /\ wpc' = [wpc EXCEPT ![w] = "exited"]
  /\ wg' = wg - 1
  /\ UNCHANGED <<ledgerVars, inputVars, accounts, pc, blockIdx, i, result, chanVars, closer,
                 wjob, wres, wview, wgot, resolved, drained, startVars>>

\* go func() { wg.Wait(); close(results) }()
CloseResults ==
  /\ closer = "wait"
  /\ wg = 0
  /\ resultsClosed' = TRUE
  /\ closer' = "done"
  /\ UNCHANGED <<ledgerVars, inputVars, accounts, pc, blockIdx, i, result, jobs, jobsClosed,
                 results, wg, workerVars, resolved, drained, startVars>>

\* TestStart_DifferentWorkerCounts: the test keeps the first result and calls
\* Start again on the same blocks and initial state with another worker count
StartAgain ==
  /\ pc = "done"
  /\ runIdx = 1
  /\ runIdx' = 2
  /\ firstResult' = [workers |-> numWorkers, snap |-> snapshot, err |-> err]
  /\ \E n \in 1..MaxWorkers : numWorkers' = n
  /\ accounts' = NewInMemoryAccountState(initialState)
  /\ pc' = "loop"
  /\ blockIdx' = 0
  /\ i' = 0
  /\ result' = <<>>
  /\ jobs' = <<>>
  /\ jobsClosed' = FALSE
  /\ results' = <<>>
  /\ resultsClosed' = FALSE
  /\ wg' = 0
  /\ closer' = "none"
  /\ wpc' = [w \in Workers |-> "none"]
  /\ wjob' = [w \in Workers |-> <<>>]
  /\ wres' = [w \in Workers |-> <<>>]
  /\ wview' = [w \in Workers |-> EmptyMap]
  /\ wgot' = [w \in Workers |-> <<>>]
  /\ resolved' = <<>>
  /\ drained' = 0
  /\ snapshot' = {}
  /\ err' = NoErr
  /\ blockErr' = NoErr
  /\ UNCHANGED <<ledgerVars, blocks, initialState>>

Next ==
  \/ ExecuteBlockEnter
  \/ SendJob
  \/ RecvResult
  \/ Commit
  \/ CloseJobs
  \/ DrainResults
  \/ StartReturn
  \/ CloseResults
  \/ \E w \in Workers : WorkerRecvJob(w)
  \/ \E w \in Workers : WorkerUpdates(w)
  \/ \E w \in Workers : WorkerSendResult(w)
  \/ \E w \in Workers : WorkerExit(w)

Spec == Init /\ [][Next]_vars

\* The Go scheduler runs every goroutine that can take a step: as long as
\* some step of Start, a worker or the closing goroutine is possible, one is
\* taken.
FairSpec == Init /\ [][Next]_vars /\ WF_vars(Next)

\* ExecuteBlock is declared to return an error, and Start is written against
\* that declaration. Its one return statement returns nil; here the value it
\* returns is left open, so that Start's error branch is exercised.
ExecuteBlockFails ==
  /\ results = <<>>
  /\ ExecuteBlockReturn("block failed")

NextAbort == Next \/ ExecuteBlockFails

SpecAbort == Init /\ [][NextAbort]_vars


\* ------------------------------------------ the ledger under concurrent calls
\* Each writer makes one call of ApplyUpdates, the reader any number of calls
\* of GetAccount and GetSnapshot, on one InMemoryAccountState. The methods take s.mu (Lock or RLock), run, and
\* release it on return. A writer waiting in Lock may also hold later readers
\* back; that removes interleavings and adds none, and is left out.
LedgerDeltas == {IntMin, -1, 1}

LedgerUpdates == {Upd(n, c) : n \in Names, c \in LedgerDeltas}

Batches == UNION {[1..n -> LedgerUpdates] : n \in 0..MaxBatchLen}

ReadCalls ==
  {[op |-> "GetSnapshot", name |-> ""]} \cup
  {[op |-> "GetAccount", name |-> n] : n \in Names}

\* what a read call returns on a given ledger, as a set of AccountValue
ReadOf(call, accts) ==
  IF call.op = "GetSnapshot" THEN getSnapshot(accts)
  ELSE {GetAccount(accts, call.name)}

Applying(t) == tpc[t] = "apply"

\* the values a read may return when it sees no half-applied batch: those of
\* the ledger before and after each batch that is being applied
WholeBatchReads(call) ==
  IF \E t \in Threads : Applying(t)
  THEN UNION {{ReadOf(call, tpre[t]), ReadOf(call, applyUpdates(tpre[t], tcall[t][1].updates))} :
                t \in {u \in Threads : Applying(u)}}
  ELSE {ReadOf(call, accounts)}

\* a read of the ledger as it is now would see a batch half applied
HalfApplied(call) ==
  /\ \E t \in Threads : Applying(t)
  /\ ReadOf(call, accounts) \notin WholeBatchReads(call)

ledgerRest == <<inputVars, pc, blockIdx, i, result, chanVars, wg, closer, workerVars,
                resolved, drained, startVars>>

\* a caller enters ApplyUpdates and waits in s.mu.Lock()
CallApplyUpdates(t) ==
  /\ tpc[t] = "idle"
  /\ tcall[t] = <<>>
  /\ tpc' = [tpc EXCEPT ![t] = "lock"]
  /\ UNCHANGED <<accounts, mu, tcall, tk, tpre, tobs, lastApplied, ledgerRest>>

\* s.mu.Lock() returns: no writer and no reader holds the mutex. The updates
\* argument plays no part before this point, so it is drawn here.
Lock(t) ==
  /\ tpc[t] = "lock"
  /\ ~mu.writer
  /\ mu.readers = 0
  /\ mu' = [mu EXCEPT !.writer = TRUE]
  /\ \E batch \in Batches :
       tcall' = [tcall EXCEPT ![t] = <<[op |-> "ApplyUpdates", updates |-> batch]>>]
  /\ tk' = [tk EXCEPT ![t] = 0]
  /\ tpre' = [tpre EXCEPT ![t] = accounts]
  /\ tpc' = [tpc EXCEPT ![t] = "apply"]
  /\ UNCHANGED <<accounts, tobs, lastApplied, ledgerRest>>

\* one iteration of the loop of applyUpdates
ApplyNext(t) ==
  /\ tpc[t] = "apply"
  /\ tk[t] < Len(tcall[t][1].updates)
  /\ LET update == tcall[t][1].updates[tk[t] + 1] IN
       /\ accounts' = applyUpdate(accounts, update)
       /\ lastApplied' = <<[update |-> update,
                            before |-> MapGet(accounts, update.Name),
                            known |-> update.Name \in DOMAIN accounts,
                            after |-> applyUpdate(accounts, update)]>>
  /\ tk' = [tk EXCEPT ![t] = tk[t] + 1]
  /\ UNCHANGED <<mu, tpc, tcall, tpre, tobs, ledgerRest>>

\* the loop is over; the deferred s.mu.Unlock() runs
Unlock(t) ==
  /\ tpc[t] = "apply"
  /\ tk[t] = Len(tcall[t][1].updates)
  /\ mu' = [mu EXCEPT !.writer = FALSE]
  /\ tpc' = [tpc EXCEPT ![t] = "returned"]
  /\ tcall' = [tcall EXCEPT ![t] = <<>>]
  /\ tk' = [tk EXCEPT ![t] = 0]
  /\ tpre' = [tpre EXCEPT ![t] = EmptyMap]
  /\ lastApplied' = <<>>
  /\ UNCHANGED <<accounts, tobs, ledgerRest>>

\* a caller enters GetAccount or getSnapshot and waits in s.mu.RLock()
CallRead(t) ==
  /\ tpc[t] = "idle"
  /\ \E call \in ReadCalls :
       tcall' = [tcall EXCEPT ![t] =
                   <<[op |-> call.op, name |-> call.name, overlap |-> HalfApplied(call)]>>]
  /\ tpc' = [tpc EXCEPT ![t] = "rlock"]
  /\ UNCHANGED <<accounts, mu, tk, tpre, tobs, lastApplied, ledgerRest>>

\* RLock that does not wait for the writer
RLockNoWait(t) ==
  /\ tpc[t] = "rlock"
  /\ mu' = [mu EXCEPT !.readers = mu.readers + 1]
  /\ tpc' = [tpc EXCEPT ![t] = "read"]
  /\ UNCHANGED <<accounts, tcall, tk, tpre, tobs, lastApplied, ledgerRest>>

\* s.mu.RLock() returns: no writer holds the mutex
RLock(t) ==
  /\ tpc[t] = "rlock"
  /\ ~mu.writer
  /\ mu' = [mu EXCEPT !.readers = mu.readers + 1]
  /\ tpc' = [tpc EXCEPT ![t] = "read"]
  /\ UNCHANGED <<accounts, tcall, tk, tpre, tobs, lastApplied, ledgerRest>>

\* the body of GetAccount or getSnapshot reads the map
Read(t) ==
  /\ tpc[t] = "read"
  /\ tobs' = [tobs EXCEPT ![t] =
                <<[val |-> ReadOf(tcall[t][1], accounts),
                   whole |-> WholeBatchReads(tcall[t][1])]>>]
  /\ tpc' = [tpc EXCEPT ![t] = "runlock"]
  /\ UNCHANGED <<accounts, mu, tcall, tk, tpre, lastApplied, ledgerRest>>

\* the deferred s.mu.RUnlock() runs
RUnlock(t) ==
  /\ tpc[t] = "runlock"
  /\ mu' = [mu EXCEPT !.readers = mu.readers - 1]
  /\ tpc' = [tpc EXCEPT ![t] = "idle"]
  /\ tcall' = [tcall EXCEPT ![t] = <<>>]
  /\ tobs' = [tobs EXCEPT ![t] = <<>>]
  /\ UNCHANGED <<accounts, tk, tpre, lastApplied, ledgerRest>>

\* the ledgers of InitialStates, and one with the largest balance and the
\* magnitude of the least int
LedgerInitialStates ==
  InitialStates \cup {<<Acct("A", UintMod - 1), Acct("B", 0 - IntMin)>>}

InitLedger ==
  \E s \in LedgerInitialStates :
    /\ blocks = <<>>
    /\ initialState = s
    /\ numWorkers = 0
    /\ StartEntry(s)
    /\ runIdx = 1
    /\ firstResult = [workers |-> 0, snap |-> {}, err |-> NoErr]
    /\ LedgerIdle

NextLedger ==
  \/ \E t \in Writers : CallApplyUpdates(t)
  \/ \E t \in Writers : Lock(t)
  \/ \E t \in Writers : ApplyNext(t)
  \/ \E t \in Writers : Unlock(t)
  \/ \E t \in Readers : CallRead(t)
  \/ \E t \in Readers : RLock(t)
  \/ \E t \in Readers : Read(t)
  \/ \E t \in Readers : RUnlock(t)

SpecLedger == InitLedger /\ [][NextLedger]_vars

\* two calls of Start on the same input, each with one worker at least
InitPair == Init /\ numWorkers >= 1

NextPair == Next \/ StartAgain

SpecPair == InitPair /\ [][NextPair]_vars

\* ------------------------------------------- strict sequential reference
\* one transaction after the other on one ledger: a failed one changes nothing
RECURSIVE SeqRef(_, _)
SeqRef(txs, ledger) ==
  IF txs = <<>> THEN ledger
  ELSE LET out == Updates(Head(txs), ledger) IN
       SeqRef(Tail(txs),
              IF out.err = NoErr THEN applyUpdates(ledger, out.updates) ELSE ledger)

RECURSIVE Flatten(_)
Flatten(bs) == IF bs = <<>> THEN <<>> ELSE Head(bs) \o Flatten(Tail(bs))

\* the ledger after blocks 1..b-1 and the first idx transactions of block b
PrefixLedger(b, idx) ==
  SeqRef(Flatten(SubSeq(blocks, 1, b - 1)) \o SubSeq(blocks[b], 1, idx),
         NewInMemoryAccountState(initialState))

Done == pc = "done"

Failed(k) == ~resolved[k].ok

\* the positions of resolved that are ledger writes
Writes == {k \in 1..Len(resolved) : resolved[k].ok}

Before(x, y) == x.block < y.block \/ (x.block = y.block /\ x.index < y.index)


InitialLedger == NewInMemoryAccountState(initialState)

IsInput(inp) == blocks = inp.blocks /\ initialState = inp.initialState

\* C1: two calls of Start on the same blocks and initial state, with worker
\* counts W1, W2 >= 1, return the same set of accounts with the same balances
\* (and the same error), whatever the interleaving of the goroutines.
C1_SameResultForAnyWorkerCounts ==
  (runIdx = 2 /\ Done) => (snapshot = firstResult.snap /\ err = firstResult.err)

C1_Witness ==
  /\ runIdx = 2
  /\ Done
  /\ firstResult.workers # numWorkers
  /\ Writes # {}
  /\ \E k \in 1..Len(resolved) : Failed(k)
  /\ snapshot # getSnapshot(InitialLedger)

\* C2: the ledger a worker's Updates reads for transaction i of block b is the
\* ledger after the successful transactions before it (earlier blocks and
\* 0..i-1 of b) and nothing of a transaction j >= i.
C2_ViewIsCommittedPrefix ==
  \A w \in Workers :
    wres[w] # <<>> => wview[w] = PrefixLedger(blockIdx, wres[w][1].index)

C2_Witness ==
  \E w \in Workers :
    /\ wres[w] # <<>>
    /\ wres[w][1].index >= 1
    /\ wview[w] # PrefixLedger(blockIdx, 0)
    /\ wview[w] # SeqRef(Flatten(blocks), InitialLedger)

\* C3: for numWorkers >= 1 the snapshot Start returns is that of the strict
\* sequential fold over all transactions of all blocks in input order; the
\* blocks of TestStart_MultipleBlocks give {A:70, B:120, C:110}.
C3_FinalIsSequentialReference ==
  (Done /\ numWorkers >= 1) =>
    /\ err = NoErr
    /\ snapshot = getSnapshot(SeqRef(Flatten(blocks), InitialLedger))
    /\ IsInput(MultipleBlocks) =>
         snapshot = {Acct("A", 70), Acct("B", 120), Acct("C", 110)}

C3_Witness ==
  /\ Done
  /\ numWorkers >= 2
  /\ IsInput(MultipleBlocks)
  /\ snapshot = {Acct("A", 70), Acct("B", 120), Acct("C", 110)}

\* C4: the ledger writes of one call of Start are strictly ascending in
\* (block, transaction index): none is applied before an earlier one, none twice.
C4_WritesAscending ==
  \A j \in Writes, k \in Writes : j < k => Before(resolved[j], resolved[k])

C4_Witness ==
  \E j \in Writes, k \in Writes, l \in Writes :
    /\ j < k /\ k < l
    /\ resolved[j].block = resolved[k].block
    /\ resolved[k].block < resolved[l].block
    /\ resolved[j].updates # <<>> /\ resolved[k].updates # <<>>

\* C5: when the received result carries an error, the commit step leaves the
\* ledger unchanged, whatever update list came with it, and the loop goes on
\* with the next transaction; TestStart_Example1 ends as {A:15, B:25, C:50}.
C5_FailedTxDiscarded ==
  /\ [][(pc = "commit" /\ pc' # "commit" /\ result[1].err # NoErr) =>
          /\ accounts' = accounts
          /\ i' = i + 1
          /\ pc' = IF i + 1 < Len(Block) THEN "send" ELSE "close"]_vars
  /\ []((Done /\ numWorkers >= 1 /\ IsInput(Example1)) =>
          snapshot = {Acct("A", 15), Acct("B", 25), Acct("C", 50)})

C5_Witness ==
  \E k \in 1..Len(resolved) - 1 :
    /\ Failed(k)
    /\ resolved[k].updates # <<>>
    /\ resolved[k + 1].block = resolved[k].block
    /\ resolved[k + 1].ok
    /\ Done

\* C6: a failed transaction never becomes the error of Start: whenever Start
\* has returned after some transactions failed, it returned the snapshot of
\* the ledger and a nil error.
C6_TxFailureIsNotAnError ==
  (Done /\ \E k \in 1..Len(resolved) : Failed(k)) =>
    (err = NoErr /\ snapshot = getSnapshot(accounts))

C6_Witness ==
  /\ Done
  /\ numWorkers >= 1
  /\ \A k \in 1..Len(resolved) : Failed(k)
  /\ Len(resolved) >= 2
  /\ err = NoErr

\* C7: a GetAccount or getSnapshot that runs concurrently with ApplyUpdates
\* returns what the ledger held before the whole batch or after the whole
\* batch; and while a batch is being applied the ledger changes by that
\* batch's updates only, so two batches never interleave.
C7_BatchAtomic ==
  /\ \A t \in Readers : tobs[t] # <<>> => tobs[t][1].val \in tobs[t][1].whole
  /\ \A t \in Writers :
       Applying(t) =>
         accounts = applyUpdates(tpre[t], SubSeq(tcall[t][1].updates, 1, tk[t]))

C7_Witness ==
  /\ \E t \in Readers : tobs[t] # <<>> /\ tcall[t][1].overlap
  /\ \E t \in Writers : tpc[t] = "returned"
  /\ \E t \in Writers : tpc[t] = "lock"

\* C8: an iteration of applyUpdates with a negative change d on a balance b
\* leaves the balance 0 when |d| > b and b - |d| otherwise.
C8_NegativeDeltaClamps ==
  lastApplied # <<>> =>
    LET u == lastApplied[1]
        d == u.update.BalanceChange
        after == MapGet(u.after, u.update.Name) IN
      d < 0 => after = IF 0 - d > u.before THEN 0 ELSE u.before - (0 - d)

C8_Witness ==
  /\ lastApplied # <<>>
  /\ lastApplied[1].update.BalanceChange < 0
  /\ lastApplied[1].before > 0
  /\ 0 - lastApplied[1].update.BalanceChange > lastApplied[1].before
  /\ accounts = lastApplied[1].after

AllNames == Names \cup {"C", "Z"}

\* C9: in every reachable ledger state GetAccount on a name that is not in the
\* ledger yields that name with balance 0, and that is what the GetAccount
\* calls of the workers' Updates got for the names the ledger did not hold.
C9_UnknownAccountReadsZero ==
  /\ \A n \in AllNames \ DOMAIN accounts : GetAccount(accounts, n) = Acct(n, 0)
  /\ \A w \in Workers :
       (wpc[w] = "send" /\ wjob[w][1].transaction.kind = "transfer") =>
         /\ Len(wgot[w]) = 1
         /\ wjob[w][1].transaction.from \notin DOMAIN wview[w] =>
              wgot[w][1] = Acct(wjob[w][1].transaction.from, 0)

C9_Witness ==
  \E w \in Workers :
    /\ wpc[w] = "send"
    /\ wjob[w][1].transaction.kind = "transfer"
    /\ wjob[w][1].transaction.from \notin DOMAIN wview[w]
    /\ wview[w] # EmptyMap
    /\ wgot[w] = <<Acct(wjob[w][1].transaction.from, 0)>>
    /\ wres[w][1].err = NoErr

\* the names that received a positive credit in a ledger write
Credited ==
  UNION {{resolved[k].updates[m].Name :
            m \in {n \in 1..Len(resolved[k].updates) :
                     resolved[k].updates[n].BalanceChange > 0}} :
           k \in Writes}

\* C10: the ledger holds an account only if the initial state named it or a
\* ledger write credited it a positive amount.
C10_KnownOnlyIfInitialOrCredited ==
  DOMAIN accounts \subseteq (DOMAIN InitialLedger \cup Credited)

\* ----------------------------------------------- termination and pipeline
\* the place of transaction idx (0-based) of block b among all transactions
Pos(b, idx) == Len(Flatten(SubSeq(blocks, 1, b - 1))) + idx + 1

\* every transaction of every block was dispatched and then committed or
\* discarded, once and in input order
AllResolved ==
  /\ Len(resolved) = Len(Flatten(blocks))
  /\ \A k \in 1..Len(resolved) : Pos(resolved[k].block, resolved[k].index) = k

\* C11: for numWorkers >= 1 and blocks of finitely many transactions whose
\* Updates return, every call of ExecuteBlock returns and so Start returns,
\* with every transaction dispatched and then committed or discarded; no
\* deadlock on the jobs or results channel.
C11_ExecuteBlockTerminates ==
  /\ <>(numWorkers < 1 \/ Done)
  /\ []((Done /\ numWorkers >= 1) => AllResolved)

C11_Witness ==
  /\ Done
  /\ numWorkers >= 2
  /\ Len(blocks) >= 2
  /\ AllResolved
  /\ Writes # {}
  /\ \E k \in 1..Len(resolved) : Failed(k)

\* C12: with numWorkers < 1, Start on blocks that hold a transaction reports
\* an error to its caller: it does not return success with the transactions'
\* effects missing.
C12_NoWorkersIsAnError ==
  (Done /\ numWorkers < 1 /\ Flatten(blocks) # <<>>) => err # NoErr

\* the transactions of the block being executed that are resolved
ResolvedInBlock == {k \in 1..Len(resolved) : resolved[k].block = blockIdx}

\* C13: if ExecuteBlock returns an error for block k, Start returns that error
\* and no snapshot, calls ExecuteBlock for no later block, and the effects of
\* the blocks up to k stay applied to the ledger.
C13_StartAbortsOnBlockError ==
  blockErr # NoErr =>
    /\ Done
    /\ err = blockErr
    /\ snapshot = {}
    /\ \A k \in 1..Len(resolved) : resolved[k].block <= blockIdx
    /\ numWorkers >= 1 => accounts = PrefixLedger(blockIdx, Len(Block))

C13_Witness ==
  /\ blockErr # NoErr
  /\ Done
  /\ numWorkers >= 1
  /\ blockIdx = 2
  /\ Len(blocks) = 3
  /\ accounts # InitialLedger
  /\ accounts # SeqRef(Flatten(blocks), InitialLedger)

\* the transactions sent on jobs whose result Start has not yet committed or
\* discarded: in a channel, at a worker, or received and not yet resolved
InFlight ==
  Len(jobs) + Cardinality({w \in Workers : wpc[w] \in {"run", "send"}}) + Len(results)
  + (IF pc = "commit" THEN 1 ELSE 0)

\* C14: for every numWorkers >= 1, transaction i+1 is sent only after the
\* result of transaction i is received and committed or discarded: at most one
\* transaction is dispatched and unresolved, and at most one worker is in
\* Updates.
C14_StrictPipeline ==
  numWorkers >= 1 =>
    /\ InFlight <= 1
    /\ Cardinality({w \in Workers : wpc[w] = "run"}) <= 1
    /\ pc = "send" => (InFlight = 0 /\ Cardinality(ResolvedInBlock) = i)
    /\ pc \in {"recv", "commit"} => (InFlight = 1 /\ Cardinality(ResolvedInBlock) = i)

C14_Witness ==
  /\ numWorkers = MaxWorkers
  /\ i >= 1
  /\ pc = "recv"
  /\ \E w \in Workers : wpc[w] = "run"
  /\ \E w \in Workers : wpc[w] = "recv"

\* C15: from the send of transaction i's job to the receipt of its result
\* nothing calls ApplyUpdates, neither Start nor a worker: the ledger does
\* not change, and it is the one Updates read.
C15_NoWriteWhileInFlight ==
  /\ [][pc = "recv" => (accounts' = accounts /\ resolved' = resolved)]_vars
  /\ [](\A w \in Workers : (pc = "recv" /\ wpc[w] = "send") => wview[w] = accounts)

C15_Witness ==
  /\ pc = "recv"
  /\ i >= 1
  /\ accounts # InitialLedger
  /\ \E w \in Workers : wpc[w] = "send" /\ wres[w][1].updates # <<>> /\ wres[w][1].err = NoErr

\* C16: a positive delta never lowers a balance: where balance + delta is
\* beyond the largest uint, applyUpdates saturates or reports it, and does not
\* wrap around.
C16_PositiveDeltaNeverDecreases ==
  \A k \in 1..Len(lastApplied) :
    lastApplied[k].update.BalanceChange >= 0 =>
      MapGet(lastApplied[k].after, lastApplied[k].update.Name) >= lastApplied[k].before

\* C17: for numWorkers >= 1 the result received in iteration i carries index
\* i and is what one call of Updates of transaction i on the ledger returned;
\* no second copy of it exists, and it is not the zero value of the closed
\* results channel.
C17_ResultIsOfTransactionI ==
  numWorkers >= 1 =>
    /\ pc \in {"recv", "commit"} => ~resultsClosed
    /\ pc = "commit" =>
         /\ result[1].index = i
         /\ result[1].updates = Updates(Block[i + 1], accounts).updates
         /\ result[1].err = Updates(Block[i + 1], accounts).err
         /\ jobs = <<>>
         /\ results = <<>>
         /\ \A w \in Workers : wpc[w] \in {"recv", "none"}

C17_Witness ==
  /\ numWorkers = MaxWorkers
  /\ pc = "commit"
  /\ i = 1
  /\ result[1].index = 1
  /\ result[1].updates # <<>>
  /\ result[1].err = NoErr

\* C18: when ExecuteBlock returns, each of its workers has left its loop, the
\* results channel is closed and the drain loop has received nothing; so no
\* worker of a block runs while Start executes the next one.
C18_WorkersGoneAtReturn ==
  (pc \in {"loop", "done"} /\ blockIdx >= 1) =>
    /\ \A w \in Workers : wpc[w] = (IF w <= numWorkers THEN "exited" ELSE "none")
    /\ wg = 0
    /\ closer = "done"
    /\ resultsClosed
    /\ results = <<>>
    /\ drained = 0

C18_Witness ==
  /\ pc = "loop"
  /\ blockIdx >= 1
  /\ blockIdx < Len(blocks)
  /\ numWorkers = MaxWorkers
  /\ resolved # <<>>

\* ------------------------------------------------------------ conservation
RECURSIVE Sum(_)
Sum(accts) ==
  IF DOMAIN accts = {} THEN 0
  ELSE LET n == CHOOSE m \in DOMAIN accts : TRUE IN
       accts[n] + Sum([m \in DOMAIN accts \ {n} |-> accts[m]])

\* the addition of applyUpdates goes beyond the largest uint
Overflows(accts, update) ==
  /\ update.BalanceChange >= 0
  /\ MapGet(accts, update.Name) + ToUint(update.BalanceChange) >= UintMod

\* applyUpdates takes its branch that sets the balance to 0
Clamps(accts, update) ==
  /\ update.BalanceChange < 0
  /\ ToUint(NegInt(update.BalanceChange)) > MapGet(accts, update.Name)

\* the ledger after a batch, and whether one of its updates overflowed or
\* was clamped
RECURSIVE ApplyTraced(_, _)
ApplyTraced(t, updates) ==
  IF updates = <<>> THEN t
  ELSE ApplyTraced([ledger |-> applyUpdate(t.ledger, Head(updates)),
                    overflow |-> t.overflow \/ Overflows(t.ledger, Head(updates)),
                    clamp |-> t.clamp \/ Clamps(t.ledger, Head(updates))],
                   Tail(updates))

\* the negation -t.value of a committed transfer overflowed int
NegationOverflows(r) ==
  LET tx == blocks[r.block][r.index + 1] IN
  r.ok /\ tx.kind = "transfer" /\ tx.value = IntMin

\* the committed batches replayed, in the order of resolved, from the initial
\* ledger
RECURSIVE Replay(_, _)
Replay(t, rs) ==
  IF rs = <<>> THEN t
  ELSE LET r == Head(rs)
           u == IF r.ok THEN ApplyTraced(t, r.updates) ELSE t IN
       Replay([u EXCEPT !.overflow = u.overflow \/ NegationOverflows(r)], Tail(rs))

LedgerTrace ==
  Replay([ledger |-> InitialLedger, overflow |-> FALSE, clamp |-> FALSE], resolved)

AllTransfers == \A b \in 1..Len(blocks) : \A k \in 1..Len(blocks[b]) :
                  blocks[b][k].kind = "transfer"

\* C19: when every transaction is a transfer of the tests, then for every
\* numWorkers >= 1, as long as no addition and no negation has overflowed,
\* applyUpdates has never taken its clamping branch and the sum of the
\* balances is the sum of the initial balances.
C19_TransfersConserveTotal ==
  (numWorkers >= 1 /\ AllTransfers) =>
    /\ LedgerTrace.ledger = accounts
    /\ ~LedgerTrace.overflow =>
         /\ ~LedgerTrace.clamp
         /\ Sum(accounts) = Sum(InitialLedger)

C19_Witness ==
  /\ IsInput(Example1)
  /\ numWorkers = MaxWorkers
  /\ Done
  /\ ~LedgerTrace.overflow
  /\ Cardinality(Writes) = 2
  /\ \E k \in 1..Len(resolved) : Failed(k)
  /\ Sum(accounts) = 90
====
